---------------------------- MODULE Spec2Model ----------------------------
(***************************************************************************)
(* A model of the raster -> vector post-processing of rd.py:               *)
(*   remove_small_components  (connected-component filter),                *)
(*   vectorize_skeleton       (pixel graph, T-junction rule, line merge,   *)
(*                             simplification, hair removal),              *)
(*   ensure_no_duplicates     (duplicate-edge repair),                     *)
(*   make_submission          (per-tile rows and the CSV file).            *)
(*                                                                         *)
(* Coordinates.  A pixel is <<x, y>> = <<column j, row i>>, as in          *)
(* unscaled_xy = np.c_[j, i].  A scaled coordinate is a decimal number     *)
(* with two places (xy.round(2)); it is held as an integer number of       *)
(* hundredths, so 2.11 is 211.  stride, tolerance and remove_hair are      *)
(* whole numbers of output units (stride is 4 // 2 in the program).        *)
(***************************************************************************)
EXTENDS Integers, Sequences, FiniteSets, TLC

\* ------------------------------------------------------------- bounds
\* Window of the raster in which pixels may be on: columns 0..MaxX,
\* rows 0..MaxY (rows further limited by the raster's extent).
MaxX == 2
MaxY == 1
\* Most on pixels of the rasters drawn by Init.
MaxPixels == 6
\* Largest stride drawn by Init.
MaxStride == 2
\* The non-zero remove_hair drawn by Init.
HairLength == 3
\* The largest linear extent len(img) drawn by Init; at this extent the
\* expansion n / (n - 1) is minor, as it is for the program's tiles.
BigExtent == 20
\* Largest pixel offset between the two on pixels of a two-pixel raster.
MaxOffset == 2
\* remove_small_components: most on pixels, largest min_length.
MaxOn == 3
MaxMinLength == 2
\* make_submission: most tiles, most polylines of one tile.
MaxTiles == 3
MaxPolylines == 2

VARIABLES
    pc,                 \* position in the function being run
    img,                \* the raster: its set of on pixels <<x, y>>
    stride,
    \* ---- vectorize_skeleton(img, stride, tolerance, preserve_topology,
    \*                         remove_hair)
    nrows,              \* len(img)
    tolerance,
    preserve_topology,
    remove_hair,
    pairs,              \* candidate edges (u, v) as pixel pairs
    kept,               \* candidate edges after keep_mask
    strings,            \* list(as_MultiLineString(shape)) in the hair step
    shape,              \* the current shape: a sequence of line strings
    branch,             \* which branch ensure_no_duplicates has taken
    \* ---- remove_small_components(img, stride, largest_only, min_length,
    \*                              padded_boundary)
    largest_only,
    min_length,
    padded_boundary,
    lab,                \* the labelled (padded) raster: pixel -> label
    num,                \* label -> pixel count, as filtered so far
    out,                \* the returned raster
    \* ---- make_submission(model_root, fold, csv_path)
    tiles,              \* what postprocess does for each listed tile
    next_tile,          \* the loop's position in iids
    rows,
    file                \* the lines of csv_path; <<>> while not written

vvars == <<nrows, tolerance, preserve_topology, remove_hair, pairs, kept,
           strings, shape, branch>>
cvars == <<largest_only, min_length, padded_boundary, lab, num, out>>
svars == <<tiles, next_tile, rows, file>>

vars == <<pc, img, stride, vvars, cvars, svars>>

\* ------------------------------------------------------- arithmetic

Abs(a) == IF a < 0 THEN -a ELSE a

Min2(a, b) == IF a <= b THEN a ELSE b

\* np.round: a / b rounded to an integer, halves to the even neighbour
\* (a >= 0, b > 0).
RoundHalfEven(a, b) ==
    LET q == a \div b
        r == a % b
    IN  IF 2 * r < b THEN q
        ELSE IF 2 * r > b THEN q + 1
        ELSE IF q % 2 = 0 THEN q ELSE q + 1

\* a / c <= d / b for a, d >= 0 and c, b > 0, by the Euclidean expansion of
\* the two fractions: exact, and no product is formed.
RECURSIVE FracLeq(_, _, _, _)
FracLeq(a, c, d, b) ==
    LET q1 == a \div c
        q2 == d \div b
        r1 == a % c
        r2 == d % b
    IN  IF q1 # q2 THEN q1 < q2
        ELSE IF r1 = 0 THEN TRUE
        ELSE IF r2 = 0 THEN FALSE
        ELSE FracLeq(b, r2, c, r1)

\* a * b <= c * d for non-negative integers, without forming the products.
MulLeq(a, b, c, d) ==
    IF a = 0 \/ b = 0 THEN TRUE
    ELSE IF c = 0 \/ d = 0 THEN FALSE
    ELSE FracLeq(a, c, d, b)

\* Floor of the square root.
RECURSIVE ISqrtBetween(_, _, _)
ISqrtBetween(x, lo, hi) ==
    IF lo >= hi THEN lo
    ELSE LET mid == (lo + hi + 1) \div 2
         IN  IF mid * mid <= x THEN ISqrtBetween(x, mid, hi)
             ELSE ISqrtBetween(x, lo, mid - 1)

ISqrt(x) == ISqrtBetween(x, 0, Min2(x, 46340))

\* ----------------------------------------------------------- points

PtLess(p, q) == p[1] < q[1] \/ (p[1] = q[1] /\ p[2] < q[2])

RECURSIVE SeqLess(_, _)
SeqLess(s, t) ==
    IF s = <<>> THEN t # <<>>
    ELSE IF t = <<>> THEN FALSE
    ELSE IF Head(s) = Head(t) THEN SeqLess(Tail(s), Tail(t))
    ELSE PtLess(Head(s), Head(t))

Reverse(s) == [k \in 1..Len(s) |-> s[Len(s) + 1 - k]]

Range(s) == {s[k] : k \in 1..Len(s)}

Dist2(p, q) == (p[1] - q[1]) * (p[1] - q[1]) + (p[2] - q[2]) * (p[2] - q[2])

\* The smallest element of a non-empty set of points / of line strings.
MinPt(S) == CHOOSE p \in S : \A q \in S : q = p \/ PtLess(p, q)

MinSeq(S) == CHOOSE s \in S : \A t \in S : t = s \/ SeqLess(s, t)

\* A set of distinct line strings as a sequence, in ascending order.
RECURSIVE SortSeqs(_)
SortSeqs(S) ==
    IF S = {} THEN <<>>
    ELSE LET m == MinSeq(S) IN <<m>> \o SortSeqs(S \ {m})

\* ------------------------------------------- vectorize_skeleton: graph

\* np.nonzero(img): the on pixels in row-major order; u < v in a pair
\* returned by query_pairs means u comes first in that order.
RowMajorLess(a, b) == a[2] < b[2] \/ (a[2] = b[2] /\ a[1] < b[1])

\* One coordinate of  (unscaled_xy * stride * (n / (n - 1))).round(2),
\* in hundredths (n >= 2).
Scale(k, s, n) == RoundHalfEven(k * s * n * 100, n - 1)

XY(p, s, n) == <<Scale(p[1], s, n), Scale(p[2], s, n)>>

\* cKDTree(xy).query_pairs(1.5 * stride): the pairs at distance at most
\* 1.5 * stride, i.e. 4 * d^2 <= 9 * (100 * stride)^2 in hundredths.
\* A query whose radius is 1.0 * stride.
WithinRadiusUnit(a, b, s, n) ==
    Dist2(XY(a, s, n), XY(b, s, n)) <= 10000 * s * s

WithinRadius(a, b, s, n) ==
    4 * Dist2(XY(a, s, n), XY(b, s, n)) <= 90000 * s * s

QueryPairs(on, s, n) ==
    {e \in on \X on : RowMajorLess(e[1], e[2]) /\ WithinRadius(e[1], e[2], s, n)}

\* is_diagonal: the unscaled offset has squared length 2.
IsDiagonal(e) == Dist2(e[1], e[2]) = 2

\* A keep_mask that looks at corner c only.
KeepEdgeOneCorner(e, on) ==
    LET a == e[1]
        b == e[2]
        c == <<a[1], b[2]>>
    IN  IF IsDiagonal(e) THEN ~(c \in on) ELSE TRUE

\* keep_mask for one candidate edge (a, b): every non-diagonal edge is
\* kept; a diagonal one is kept unless corner c or corner d is on.
KeepEdge(e, on) ==
    LET a == e[1]
        b == e[2]
        c == <<a[1], b[2]>>
        d == <<b[1], a[2]>>
    IN  IF IsDiagonal(e) THEN ~(c \in on \/ d \in on) ELSE TRUE

KeepMask(cand, on) == {e \in cand : KeepEdge(e, on)}

\* lines = [xy[u], xy[v]]: the kept edges as unordered coordinate pairs.
Lines(edges, s, n) == {{XY(e[1], s, n), XY(e[2], s, n)} : e \in edges}

\* ----------------------------------------------- shapely.ops.linemerge
\* linemerge chains the segments that meet at a node of degree 2 into one
\* line string; a node of any other degree ends the line strings that
\* reach it; a component all of whose nodes have degree 2 becomes one
\* closed line string.  A segment with equal end points is ignored.

Proper(E) == {e \in E : Cardinality(e) = 2}

Nodes(E) == UNION E

Nbrs(E, p) == {q \in Nodes(E) : q # p /\ {p, q} \in E}

Deg(E, p) == Cardinality(Nbrs(E, p))

\* Follow the chain from the last node of path until a node of degree
\* other than 2 (or the start of the path) is reached.
RECURSIVE Follow(_, _)
Follow(E, path) ==
    LET cur == path[Len(path)]
        prev == path[Len(path) - 1]
    IN  IF Deg(E, cur) # 2 \/ cur = path[1] THEN path
        ELSE Follow(E, Append(path, CHOOSE q \in Nbrs(E, cur) : q # prev))

Canon(path) == IF SeqLess(Reverse(path), path) THEN Reverse(path) ELSE path

LineMerge(E0) ==
    LET E == Proper(E0)
        terminals == {p \in Nodes(E) : Deg(E, p) # 2}
        open == UNION {{Canon(Follow(E, <<t, w>>)) : w \in Nbrs(E, t)} :
                       t \in terminals}
        covered == UNION {Range(s) : s \in open}
        loopNodes == Nodes(E) \ covered
        loops == {Follow(E, <<p, MinPt(Nbrs(E, p))>>) : p \in loopNodes}
        rings == {r \in loops : r[1] = MinPt(Range(r))}
    IN  SortSeqs(open \cup rings)

\* ------------------------------------------- shape.simplify(tolerance)
\* The squared distance from p to the segment (a, b), as GEOS computes the
\* distance: to a when a = b or the projection falls before a, to b when
\* it falls after b, otherwise the perpendicular distance |cross| / |ab|.
\* The value is d (perp = FALSE) or c * c / l (perp = TRUE).
SegDist(p, a, b) ==
    LET l == Dist2(a, b)
        dot == (p[1] - a[1]) * (b[1] - a[1]) + (p[2] - a[2]) * (b[2] - a[2])
        cross == (a[2] - p[2]) * (b[1] - a[1]) - (a[1] - p[1]) * (b[2] - a[2])
    IN  IF l = 0 \/ dot <= 0 THEN [perp |-> FALSE, d |-> Dist2(p, a), c |-> 0, l |-> 1]
        ELSE IF dot >= l THEN [perp |-> FALSE, d |-> Dist2(p, b), c |-> 0, l |-> 1]
        ELSE [perp |-> TRUE, d |-> 0, c |-> Abs(cross), l |-> l]

\* x <= y for two distances to the same segment.
DistLeq(x, y) ==
    IF x.perp THEN IF y.perp THEN x.c <= y.c
                   ELSE MulLeq(x.c, x.c, x.l, y.d)
    ELSE IF y.perp THEN MulLeq(x.d, y.l, y.c, y.c)
         ELSE x.d <= y.d

\* distance <= tolerance, the tolerance t in hundredths.
WithinTolerance(x, t) ==
    IF x.perp THEN MulLeq(x.c, x.c, t * t, x.l) ELSE x.d <= t * t

\* The interior point of line[i..j] furthest from the segment
\* (line[i], line[j]): the first one at the greatest distance.
Furthest(line, i, j) ==
    CHOOSE k \in (i + 1)..(j - 1) :
        /\ \A m \in (i + 1)..(j - 1) :
               DistLeq(SegDist(line[m], line[i], line[j]),
                       SegDist(line[k], line[i], line[j]))
        /\ \A m \in (i + 1)..(k - 1) :
               ~DistLeq(SegDist(line[k], line[i], line[j]),
                        SegDist(line[m], line[i], line[j]))

\* The index sequences that simplifying the section line[i..j] can leave.
\* Douglas-Peucker (preserve_topology = False) replaces the section by its
\* chord when the furthest point is within the tolerance and otherwise
\* splits it at that point.  The topology-preserving simplifier does the
\* same, but also splits a section within the tolerance when it finds that
\* the chord would cross another part of the geometry; that test is not
\* modelled, so with preserve_topology either outcome is possible.
RECURSIVE SimplifySection(_, _, _, _, _)
SimplifySection(line, i, j, t, topo) ==
    IF j <= i + 1 THEN {<<i, j>>}
    ELSE LET k == Furthest(line, i, j)
             within == WithinTolerance(SegDist(line[k], line[i], line[j]), t)
             split == {a \o Tail(b) : a \in SimplifySection(line, i, k, t, topo),
                                      b \in SimplifySection(line, k, j, t, topo)}
         IN  IF ~within THEN split
             ELSE IF topo THEN {<<i, j>>} \cup split
             ELSE {<<i, j>>}

SimplifyLine(line, t, topo) ==
    {[m \in 1..Len(idx) |-> line[idx[m]]] :
        idx \in SimplifySection(line, 1, Len(line), t, topo)}

\* The shapes that simplifying every line string of shp can give.
RECURSIVE SimplifyShape(_, _, _)
SimplifyShape(shp, t, topo) ==
    IF shp = <<>> THEN {<<>>}
    ELSE {<<h>> \o r : h \in SimplifyLine(Head(shp), t, topo),
                       r \in SimplifyShape(Tail(shp), t, topo)}

\* ------------------------------------------------------- hair removal

\* arity[point]: the occurrences of point among the coordinates of all
\* line strings.
Occurrences(strn, p) == Cardinality({k \in 1..Len(strn) : strn[k] = p})

RECURSIVE Arity(_, _)
Arity(strs, p) ==
    IF strs = <<>> THEN 0
    ELSE Occurrences(Head(strs), p) + Arity(Tail(strs), p)

\* strn.length lies between LengthLo and LengthHi (hundredths): each
\* segment's length is taken between the floor of its square root and the
\* next integer.
RECURSIVE LengthLo(_)
LengthLo(strn) ==
    IF Len(strn) < 2 THEN 0
    ELSE ISqrt(Dist2(strn[1], strn[2])) + LengthLo(Tail(strn))

Inexact(d) == IF ISqrt(d) * ISqrt(d) = d THEN 0 ELSE 1

RECURSIVE LengthHi(_)
LengthHi(strn) ==
    IF Len(strn) < 2 THEN 0
    ELSE ISqrt(Dist2(strn[1], strn[2])) + Inexact(Dist2(strn[1], strn[2]))
         + LengthHi(Tail(strn))

\* The values strn.length >= remove_hair can take: decided unless the
\* length is within a hundredth of remove_hair, where it rests on the
\* floating-point sum.
LengthAtLeast(strn, h) ==
    IF LengthLo(strn) > 100 * h THEN {TRUE}
    ELSE IF LengthHi(strn) < 100 * h THEN {FALSE}
    ELSE BOOLEAN

\* arity as the dictionary the first loop builds.
ArityOf(strs) ==
    [p \in UNION {Range(strs[k]) : k \in 1..Len(strs)} |-> Arity(strs, p)]

\* The condition under which the second loop appends strn to good_strings.
\* A test that spares a string unless both of its ends are dangling.
IsGoodBothEnds(arity, strn, long) ==
    ~(arity[strn[1]] = 1 /\ arity[strn[Len(strn)]] = 1) \/ long

IsGood(arity, strn, long) ==
    (arity[strn[1]] # 1 /\ arity[strn[Len(strn)]] # 1) \/ long

\* The values good_strings can take, from strs[k] on.
RECURSIVE GoodStrings(_, _, _, _)
GoodStrings(strs, arity, h, k) ==
    IF k > Len(strs) THEN {<<>>}
    ELSE LET heads == {IF IsGood(arity, strs[k], long) THEN <<strs[k]>> ELSE <<>> :
                          long \in LengthAtLeast(strs[k], h)}
         IN  {a \o r : a \in heads, r \in GoodStrings(strs, arity, h, k + 1)}

\* ------------------------------------------------ ensure_no_duplicates

\* edges.round(1): a coordinate rounded to one decimal place.
Round1(c) == 10 * RoundHalfEven(c, 10)

RoundPt(p) == <<Round1(p[1]), Round1(p[2])>>

\* tuple(sorted(map(tuple, edge))): the rounded edge as an unordered pair.
\* An edge key that keeps the direction of the pair (no sorted()).
EdgeKeyOrdered(u, v) == <<RoundPt(u), RoundPt(v)>>

EdgeKey(u, v) == {RoundPt(u), RoundPt(v)}

\* The number of consecutive coordinate pairs of all line strings.
RECURSIVE NumEdges(_)
NumEdges(strs) ==
    IF strs = <<>> THEN 0 ELSE (Len(Head(strs)) - 1) + NumEdges(Tail(strs))

EdgeSet(strs) ==
    UNION {{EdgeKey(strs[i][k], strs[i][k + 1]) : k \in 1..(Len(strs[i]) - 1)} :
           i \in 1..Len(strs)}

HasDuplicates(strs) == Cardinality(EdgeSet(strs)) < NumEdges(strs)

\* --------------------------------------- vectorize_skeleton: actions

\* xy = unscaled_xy * stride * (len(img) / (len(img) - 1)): Python raises
\* ZeroDivisionError for a raster of one row, whatever its pixels.
Extract ==
    /\ pc = "start"
    /\ \/ /\ nrows = 1
          /\ pc' = "raised"
       \/ /\ nrows > 1
          /\ pc' = "scaled"
    /\ UNCHANGED <<img, stride, vvars, cvars, svars>>

\* u, v = np.array(list(query_pairs(...))).T: with no pair the unpacking
\* raises ValueError and the function returns linemerge([]).
Query ==
    /\ pc = "scaled"
    /\ pairs' = QueryPairs(img, stride, nrows)
    /\ \/ /\ pairs' = {}
          /\ shape' = <<>>
          /\ pc' = "done"
       \/ /\ pairs' # {}
          /\ shape' = shape
          /\ pc' = "pairs"
    /\ UNCHANGED <<img, stride, nrows, tolerance, preserve_topology,
                   remove_hair, kept, strings, branch, cvars, svars>>

TJunction ==
    /\ pc = "pairs"
    /\ kept' = KeepMask(pairs, img)
    /\ pc' = "kept"
    /\ UNCHANGED <<img, stride, nrows, tolerance, preserve_topology,
                   remove_hair, pairs, strings, shape, branch, cvars, svars>>

\* shape = linemerge(lines).simplify(tolerance, preserve_topology)
Merge ==
    /\ pc = "kept"
    /\ shape' = LineMerge(Lines(kept, stride, nrows))
    /\ pc' = "merged"
    /\ UNCHANGED <<img, stride, nrows, tolerance, preserve_topology,
                   remove_hair, pairs, kept, strings, branch, cvars, svars>>

Simplify ==
    /\ pc = "merged"
    /\ shape' \in SimplifyShape(shape, 100 * tolerance, preserve_topology)
    /\ pc' = "simplified"
    /\ UNCHANGED <<img, stride, nrows, tolerance, preserve_topology,
                   remove_hair, pairs, kept, strings, branch, cvars, svars>>

\* if remove_hair: ... shape = MultiLineString(good_strings)
RemoveHair ==
    /\ pc = "simplified"
    /\ \/ /\ remove_hair # 0
          /\ strings' = shape
          /\ shape' \in GoodStrings(shape, ArityOf(shape), remove_hair, 1)
       \/ /\ remove_hair = 0
          /\ UNCHANGED <<strings, shape>>
    /\ pc' = "pruned"
    /\ UNCHANGED <<img, stride, nrows, tolerance, preserve_topology,
                   remove_hair, pairs, kept, branch, cvars, svars>>

\* shape = ensure_no_duplicates(shape); return shape
EnsureNoDuplicates ==
    /\ pc = "pruned"
    /\ \/ /\ HasDuplicates(shape)
          /\ shape' = LineMerge(EdgeSet(shape))
          /\ branch' = "remerged"
       \/ /\ ~HasDuplicates(shape)
          /\ shape' = shape
          /\ branch' = "unchanged"
    /\ pc' = "done"
    /\ UNCHANGED <<img, stride, nrows, tolerance, preserve_topology,
                   remove_hair, pairs, kept, strings, cvars, svars>>

\* The variables of the functions that are not running.
IdleComponents ==
    /\ largest_only = FALSE
    /\ min_length = 0
    /\ padded_boundary = FALSE
    /\ lab = <<>>
    /\ num = <<>>
    /\ out = {}

IdleSubmission ==
    /\ tiles = <<>>
    /\ next_tile = 0
    /\ rows = <<>>
    /\ file = <<>>

IdleVectorize ==
    /\ nrows = 0
    /\ tolerance = 0
    /\ preserve_topology = FALSE
    /\ remove_hair = 0
    /\ pairs = {}
    /\ kept = {}
    /\ strings = <<>>
    /\ shape = <<>>
    /\ branch = "none"

Window(n, maxy) == (0..MaxX) \X (0..Min2(maxy, n - 1))

\* A call of vectorize_skeleton on a raster of 1 or BigExtent rows whose on
\* pixels, at most maxon, lie in rows 0..maxy of the window; tolerance is 0
\* or, as postprocess passes it, 1 * stride.
VectorizeCall(maxy, maxon) ==
    /\ pc = "start"
    /\ nrows \in {1, BigExtent}
    /\ img \in {on \in SUBSET Window(nrows, maxy) : Cardinality(on) <= maxon}
    /\ stride \in 1..MaxStride
    /\ tolerance \in {0, stride}
    /\ preserve_topology \in BOOLEAN
    /\ remove_hair \in {0, HairLength}
    /\ pairs = {}
    /\ kept = {}
    /\ strings = <<>>
    /\ shape = <<>>
    /\ branch = "none"
    /\ IdleComponents
    /\ IdleSubmission

Init == VectorizeCall(MaxY, MaxPixels)

Next ==
    \/ Extract
    \/ Query
    \/ TJunction
    \/ Merge
    \/ Simplify
    \/ RemoveHair
    \/ EnsureNoDuplicates

Spec == Init /\ [][Next]_vars

\* The same function on every raster of a window one row taller.
InitTall == VectorizeCall(MaxY + 1, (MaxX + 1) * (MaxY + 2))

SpecTall == InitTall /\ [][Next]_vars

\* The graph extraction alone, on every raster of 1..BigExtent rows and
\* columns with at most two on pixels, at most MaxOffset apart.
Near(a, b) == Abs(a[1] - b[1]) <= MaxOffset /\ Abs(a[2] - b[2]) <= MaxOffset

InitPairs ==
    /\ pc = "start"
    /\ nrows \in 1..BigExtent
    /\ \E a \in (0..(nrows - 1)) \X (0..(nrows - 1)) :
       \E b \in (0..(nrows - 1)) \X (0..(nrows - 1)) :
          /\ a = b \/ RowMajorLess(a, b)
          /\ Near(a, b)
          /\ img = {a, b}
    /\ stride \in 1..MaxStride
    /\ tolerance = stride
    /\ preserve_topology = TRUE
    /\ remove_hair = 0
    /\ pairs = {}
    /\ kept = {}
    /\ strings = <<>>
    /\ shape = <<>>
    /\ branch = "none"
    /\ IdleComponents
    /\ IdleSubmission

NextPairs == Extract \/ Query

SpecPairs == InitPairs /\ [][NextPairs]_vars

\* ============================================ remove_small_components

\* The raster of remove_small_components: one column and one row more
\* than the vectorizer's window, so that it has pixels off its edge.
Width == MaxX + 2

Height == MaxY + 2

Raster == (0..(Width - 1)) \X (0..(Height - 1))

\* np.pad(img, 1, 'constant', constant_values=1): the raster moves one
\* pixel right and down inside a frame of on pixels.
Frame ==
    {p \in (0..(Width + 1)) \X (0..(Height + 1)) :
        p[1] = 0 \/ p[1] = Width + 1 \/ p[2] = 0 \/ p[2] = Height + 1}

Pad(on) == {<<p[1] + 1, p[2] + 1>> : p \in on} \cup Frame

\* img[1:-1, 1:-1]
Strip(on) ==
    {<<p[1] - 1, p[2] - 1>> :
        p \in {q \in on : q[1] \in 1..Width /\ q[2] \in 1..Height}}

\* The structure np.ones((3, 3)): two pixels are connected when they
\* differ by at most one column and one row.
Connected8(a, b) ==
    a # b /\ Abs(a[1] - b[1]) <= 1 /\ Abs(a[2] - b[2]) <= 1

\* The component that grows from the pixels of comp, of which those in
\* fresh are yet to be looked at.
RECURSIVE Grow(_, _, _)
Grow(on, comp, fresh) ==
    LET more == {q \in on \ comp : \E c \in fresh : Connected8(c, q)}
    IN  IF more = {} THEN comp ELSE Grow(on, comp \cup more, more)

\* The first pixel of a non-empty set in row-major (scan) order.
FirstPixel(on) ==
    CHOOSE p \in on : \A q \in on : q = p \/ RowMajorLess(p, q)

\* The 8-connected components in the order in which the scan meets them.
RECURSIVE ComponentSeq(_)
ComponentSeq(on) ==
    IF on = {} THEN <<>>
    ELSE LET c == Grow(on, {FirstPixel(on)}, {FirstPixel(on)})
         IN  <<c>> \o ComponentSeq(on \ c)

Components(on) == Range(ComponentSeq(on))

\* ndimage.label(img, np.ones((3, 3)))[0]: the components are numbered
\* from 1 in the order in which the scan meets them.
Label(on) ==
    LET comps == ComponentSeq(on)
    IN  [p \in on |-> CHOOSE l \in 1..Len(comps) : p \in comps[l]]

\* num.loc[i + 1] = np.sum(lab[s] == i + 1)
Counts(lb) ==
    [l \in {lb[p] : p \in DOMAIN lb} |->
        Cardinality({p \in DOMAIN lb : lb[p] = l})]

\* num * stride >= min_length, for one component
\* A strict comparison with min_length.
LongEnoughStrict(count, s, m) == count * s > m

LongEnough(count, s, m) == count * s >= m

\* num[num * stride >= min_length]
FilterLength(nm, s, m) ==
    [l \in {k \in DOMAIN nm : LongEnough(nm[k], s, m)} |-> nm[l]]

\* The first label of the sorted series, iloc[:1], instead of the last.
LargestOnlyFirst(nm) ==
    IF DOMAIN nm = {} THEN {nm}
    ELSE {[l \in {k} |-> nm[l]] :
             k \in {j \in DOMAIN nm : \A i \in DOMAIN nm : nm[j] <= nm[i]}}

\* num.sort_values().iloc[-1:]: the last label in ascending order of
\* count, so one with the greatest count (which one, among several of the
\* greatest count, is left to the sort); nothing when num is empty.
LargestOnly(nm) ==
    IF DOMAIN nm = {} THEN {nm}
    ELSE {[l \in {k} |-> nm[l]] :
             k \in {j \in DOMAIN nm : \A i \in DOMAIN nm : nm[i] <= nm[j]}}

\* lab_mask[lab]
Mask(lb, nm) == {p \in DOMAIN lb : lb[p] \in DOMAIN nm}

\* lab = ndimage.label(...); num.loc[i + 1] = ... , after the optional pad
LabelStep ==
    /\ pc = "c_start"
    /\ lab' = Label(IF padded_boundary THEN Pad(img) ELSE img)
    /\ num' = Counts(lab')
    /\ pc' = "labelled"
    /\ UNCHANGED <<img, stride, largest_only, min_length, padded_boundary,
                   out, vvars, svars>>

\* if len(num): the length filter and, with largest_only, the choice of
\* the largest component
FilterStep ==
    /\ pc = "labelled"
    /\ DOMAIN num # {}
    /\ \/ /\ largest_only
          /\ num' \in LargestOnly(FilterLength(num, stride, min_length))
       \/ /\ ~largest_only
          /\ num' = FilterLength(num, stride, min_length)
    /\ pc' = "filtered"
    /\ UNCHANGED <<img, stride, largest_only, min_length, padded_boundary,
                   lab, out, vvars, svars>>

\* img = lab_mask[lab], the padding stripped, returned
MaskStep ==
    /\ pc = "filtered"
    /\ out' = (IF padded_boundary THEN Strip(Mask(lab, num)) ELSE Mask(lab, num))
    /\ pc' = "c_done"
    /\ UNCHANGED <<img, stride, largest_only, min_length, padded_boundary,
                   lab, num, vvars, svars>>

\* len(num) = 0: the raster is returned as it came
ReturnUnchanged ==
    /\ pc = "labelled"
    /\ DOMAIN num = {}
    /\ out' = (IF padded_boundary THEN Strip(Pad(img)) ELSE img)
    /\ pc' = "c_done"
    /\ UNCHANGED <<img, stride, largest_only, min_length, padded_boundary,
                   lab, num, vvars, svars>>

InitComponents ==
    /\ pc = "c_start"
    /\ img \in {on \in SUBSET Raster : Cardinality(on) <= MaxOn}
    /\ stride \in 1..MaxStride
    /\ largest_only \in BOOLEAN
    /\ min_length \in 0..MaxMinLength
    /\ padded_boundary \in BOOLEAN
    /\ lab = <<>>
    /\ num = <<>>
    /\ out = {}
    /\ IdleVectorize
    /\ IdleSubmission

NextComponents == LabelStep \/ FilterStep \/ MaskStep \/ ReturnUnchanged

SpecComponents == InitComponents /\ [][NextComponents]_vars

\* ==================================================== make_submission

\* The first names os.listdir can return, with the extension split off.
TileNames == <<"img1", "img2", "img3", "img4", "img5", "img6">>

\* What postprocess does for a tile: it raises, or returns a shape of
\* 0..MaxPolylines line strings.
Raises == -1

\* The line strings of the shape returned for tile t when it has k.
TileShape(t, k) == [j \in 1..k |-> <<<<t, j>>, <<t + 1, j>>>>]

\* linestring.wkt, and the text written for a tile without line strings
Wkt(linestring) == <<"LINESTRING", linestring>>

WktEmpty == <<"LINESTRING EMPTY", <<>>>>

\* '{ImageId},"{wkt}"'.format(...)
Row(id, wkt) == [ImageId |-> id, wkt |-> wkt]

\* Rows without the row of an empty tile.
TileRowsNoEmpty(id, linestrings) ==
    [j \in 1..Len(linestrings) |-> Row(id, Wkt(linestrings[j]))]

\* The rows the loop body appends for one tile.
TileRows(id, linestrings) ==
    IF linestrings = <<>> THEN <<Row(id, WktEmpty)>>
    ELSE [j \in 1..Len(linestrings) |-> Row(id, Wkt(linestrings[j]))]

Header == [ImageId |-> "ImageId", wkt |-> <<"WKT_Pix", <<>>>>]

\* One pass of the loop over iids: postprocess raises, and the exception
\* leaves make_submission, or it returns and the tile's rows are appended.
ProcessTile ==
    /\ pc = "s_loop"
    /\ next_tile <= Len(tiles)
    /\ \/ /\ tiles[next_tile] = Raises
          /\ pc' = "s_raised"
          /\ UNCHANGED <<next_tile, rows>>
       \/ /\ tiles[next_tile] # Raises
          /\ rows' = rows \o TileRows(TileNames[next_tile],
                                      TileShape(next_tile, tiles[next_tile]))
          /\ next_tile' = next_tile + 1
          /\ pc' = pc
    /\ UNCHANGED <<img, stride, tiles, file, vvars, cvars>>

\* with open(csv_path, 'w') as f: the header, then every row
WriteFile ==
    /\ pc = "s_loop"
    /\ next_tile > Len(tiles)
    /\ file' = <<Header>> \o rows
    /\ pc' = "s_written"
    /\ UNCHANGED <<img, stride, tiles, next_tile, rows, vvars, cvars>>

InitSubmission ==
    /\ pc = "s_loop"
    /\ \E n \in 0..MaxTiles : tiles \in [1..n -> {Raises} \cup (0..MaxPolylines)]
    /\ next_tile = 1
    /\ rows = <<>>
    /\ file = <<>>
    /\ img = {}
    /\ stride = 0
    /\ IdleVectorize
    /\ IdleComponents

NextSubmission == ProcessTile \/ WriteFile

SpecSubmission == InitSubmission /\ [][NextSubmission]_vars

\* ======================================================= properties

\* The consecutive coordinate pairs of a shape, by position.
SegmentsOf(shp) ==
    UNION {{<<i, k>> : k \in 1..(Len(shp[i]) - 1)} : i \in 1..Len(shp)}

RoundedSegment(shp, ik) ==
    {<<Round1(shp[ik[1]][ik[2]][1]), Round1(shp[ik[1]][ik[2]][2])>>,
     <<Round1(shp[ik[1]][ik[2] + 1][1]), Round1(shp[ik[1]][ik[2] + 1][2])>>}

First(strn) == strn[1]

Last(strn) == strn[Len(strn)]

\* C1: the shape vectorize_skeleton returns has no duplicate segment: the
\* consecutive coordinate pairs of its line strings, each coordinate
\* rounded to 1 decimal place and each pair taken unordered, are pairwise
\* different, whichever branch ensure_no_duplicates took.
C1_NoDuplicateSegment ==
    pc = "done" =>
        \A p \in SegmentsOf(shape) : \A q \in SegmentsOf(shape) :
            p # q => RoundedSegment(shape, p) # RoundedSegment(shape, q)

\* Reached: ensure_no_duplicates found a duplicate and re-merged the edges
\* into a non-empty shape.
C1_Witness == pc = "done" /\ branch = "remerged" /\ shape # <<>>

\* C2: with remove_hair = L > 0 the returned shape holds no line string
\* shorter than L whose two end points both have arity 1, the arity counted
\* over the returned line strings.
C2_NoShortIsolatedString ==
    (pc = "done" /\ remove_hair > 0) =>
        \A k \in 1..Len(shape) :
            ~ /\ LengthHi(shape[k]) < 100 * remove_hair
              /\ Arity(shape, First(shape[k])) = 1
              /\ Arity(shape, Last(shape[k])) = 1

\* A line string has a dangling end when one of its end points occurs once
\* among the coordinates of all line strings of the hair step.
Dangling(k) ==
    Arity(strings, First(strings[k])) = 1 \/ Arity(strings, Last(strings[k])) = 1

Isolated(k) ==
    Arity(strings, First(strings[k])) = 1 /\ Arity(strings, Last(strings[k])) = 1

Dropped(k) == strings[k] \notin Range(shape)

InHairStep == pc = "pruned" /\ remove_hair > 0

\* C3 (as amended): in the hair-removal step a line string is dropped if
\* and only if at least one of its end points has arity exactly 1 and its
\* length is below remove_hair; every other line string is kept.
C3_HairRule ==
    InHairStep =>
        /\ Range(shape) \subseteq Range(strings)
        /\ \A k \in 1..Len(strings) :
              /\ (Dangling(k) /\ LengthHi(strings[k]) < 100 * remove_hair)
                     => Dropped(k)
              /\ (~Dangling(k) \/ LengthLo(strings[k]) > 100 * remove_hair)
                     => ~Dropped(k)

\* Reached: a short line string with one end on a junction and the other
\* dangling was dropped, and another line string was kept.
C3_Witness ==
    /\ InHairStep
    /\ \E k \in 1..Len(strings) : Dangling(k) /\ ~Isolated(k) /\ Dropped(k)
    /\ shape # <<>>

\* C3 as claimed: a line string is dropped if and only if both of its end
\* points have arity exactly 1 and its length is below remove_hair.
C3_AsClaimed ==
    InHairStep =>
        \A k \in 1..Len(strings) :
            /\ Dropped(k) => Isolated(k)
            /\ (Isolated(k) /\ LengthHi(strings[k]) < 100 * remove_hair)
                   => Dropped(k)

\* C8: when no two on pixels lie within the neighbour radius (an all-false
\* raster, a single on pixel, a single row) vectorize_skeleton does not
\* raise and returns an empty shape.
C8_EmptyNotRaise ==
    (\/ Cardinality(img) <= 1
     \/ (nrows > 1 /\ QueryPairs(img, stride, nrows) = {}))
        => /\ pc # "raised"
           /\ pc = "done" => shape = <<>>

Adjacent8(a, b) ==
    a # b /\ Abs(a[1] - b[1]) <= 1 /\ Abs(a[2] - b[2]) <= 1

Queried == pc \in {"pairs", "done"}

CandidatesAre8Neighbours ==
    \A a \in img : \A b \in img :
        RowMajorLess(a, b) => (<<a, b>> \in pairs <=> Adjacent8(a, b))

Joined(a, b) == <<a, b>> \in kept \/ <<b, a>> \in kept

AfterKeep == pc \in {"kept", "merged", "simplified", "pruned", "done"}

\* C10: after the T-junction step a diagonal candidate (a, b) is kept if
\* and only if neither corner pixel (a.x, b.y) nor (b.x, a.y) is on, every
\* other candidate is kept, and no three on pixels are pairwise joined by
\* kept edges.
C10_NoTriangle ==
    AfterKeep =>
        /\ kept \subseteq pairs
        /\ \A e \in pairs :
              e \in kept <=>
                 (IsDiagonal(e) =>
                     /\ <<e[1][1], e[2][2]>> \notin img
                     /\ <<e[2][1], e[1][2]>> \notin img)
        /\ \A e \in kept : \A c \in img :
              ~(Joined(e[1], e[2]) /\ Joined(e[2], c) /\ Joined(e[1], c))

\* Reached: one diagonal candidate was discarded and another was kept.
C10_Witness ==
    /\ pc = "kept"
    /\ \E e \in pairs : IsDiagonal(e) /\ e \notin kept
    /\ \E e \in kept : IsDiagonal(e)

\* ---- remove_small_components

Returned == pc = "c_done"

TouchesEdge(comp) ==
    \E p \in comp : \/ p[1] = 0 \/ p[1] = Width - 1
                    \/ p[2] = 0 \/ p[2] = Height - 1

Size(comp) == Cardinality(comp)

IsLargest(comp) == \A c \in Components(img) : Size(c) <= Size(comp)

EdgePixels == UNION {c \in Components(img) : TouchesEdge(c)}

CountedWithFrame == Cardinality(Frame) + Cardinality(EdgePixels)

\* C5 (as amended): with largest_only unset every input component is
\* left whole or removed whole; without padded_boundary, or when it does
\* not touch the raster edge, it is left if and only if its pixel count x
\* stride >= min_length.  With padded_boundary the components that touch
\* the raster edge are counted together with the padding frame and are
\* left if and only if that count x stride >= min_length.
C5_LengthFilter ==
    (Returned /\ ~largest_only) =>
        /\ out \subseteq img
        /\ \A c \in Components(img) :
              /\ c \subseteq out \/ c \cap out = {}
              /\ c \subseteq out <=>
                    IF padded_boundary /\ TouchesEdge(c)
                    THEN CountedWithFrame * stride >= min_length
                    ELSE Size(c) * stride >= min_length

\* Reached: with padded_boundary a component off the edge is removed as too
\* short while a component on the edge, no longer, is left.
C5_Witness ==
    /\ Returned /\ ~largest_only /\ padded_boundary
    /\ \E c \in Components(img) : ~TouchesEdge(c) /\ c \cap out = {}
    /\ \E c \in Components(img) :
          TouchesEdge(c) /\ c \subseteq out /\ Size(c) * stride < min_length

\* C5 as claimed: with largest_only unset, for either value of
\* padded_boundary, a component is left only if its pixel count x stride
\* >= min_length, and every such component is left.
C5_AsClaimed ==
    (Returned /\ ~largest_only) =>
        \A c \in Components(img) :
            /\ c \cap out # {} => Size(c) * stride >= min_length
            /\ Size(c) * stride >= min_length => c \subseteq out

\* ---- make_submission

\* The rows written for the tiles before tile t.
RECURSIVE RowsBefore(_)
RowsBefore(t) ==
    IF t <= 1 THEN 0
    ELSE RowsBefore(t - 1) + (IF tiles[t - 1] = 0 THEN 1 ELSE tiles[t - 1])

\* C6: a tile whose processing raises does not abort the others: when
\* make_submission has ended, the rows of every tile that postprocess can
\* process are in the file.
C6_FailureIsolated ==
    pc \in {"s_written", "s_raised"} =>
        \A t \in 1..Len(tiles) :
            tiles[t] # Raises =>
                \E r \in 1..Len(file) : file[r].ImageId = TileNames[t]

\* C7: the file is the header row followed, tile by tile in listing
\* order, by one block of rows with that tile's identifier: the single row
\* LINESTRING EMPTY for a tile without line strings, otherwise one row per
\* line string in the order of the shape; 1 + sum(max(1, k_i)) lines.
C7_FileLayout ==
    pc = "s_written" =>
        /\ file[1] = [ImageId |-> "ImageId", wkt |-> <<"WKT_Pix", <<>>>>]
        /\ Len(file) = 1 + RowsBefore(Len(tiles) + 1)
        /\ \A t \in 1..Len(tiles) :
              IF tiles[t] = 0
              THEN file[1 + RowsBefore(t) + 1] =
                      [ImageId |-> TileNames[t],
                       wkt |-> <<"LINESTRING EMPTY", <<>>>>]
              ELSE \A j \in 1..tiles[t] :
                      file[1 + RowsBefore(t) + j] =
                          [ImageId |-> TileNames[t],
                           wkt |-> <<"LINESTRING", TileShape(t, tiles[t])[j]>>]

\* Reached: a file with the row of an empty tile and the rows of a tile of
\* two line strings.
C7_Witness ==
    /\ pc = "s_written"
    /\ \E t \in 1..Len(tiles) : tiles[t] = 0
    /\ \E t \in 1..Len(tiles) : tiles[t] = 2

=============================================================================
